---- MODULE Spec2Model ----
(***************************************************************************)
(* A model of cactus::ffi (ffi_utils.h): the hand-written JSON scanners    *)
(* and encoders at the engine boundary.  A text is a sequence of           *)
(* one-character strings; positions are 0-based as in std::string, and     *)
(* size_t arithmetic wraps (modulo SizeMod, with npos the largest value).  *)
(***************************************************************************)
EXTENDS Integers, Sequences, FiniteSets

VARIABLES
    fn,                 \* the function being executed
    pc,                 \* its position: "start", "scan", "done", "threw"
    json,               \* the input text of a decoder
    pos,                \* the scan cursor (pos / seq_pos / search_pos)
    end_pos,            \* parse_options_json: position of the first ']' after '['
    src,                \* the values the input text was rendered from (history)
    messages,           \* parse_messages_json: the turns collected
    tools,              \* parse_tools_json: the descriptors collected
    options,            \* parse_options_json: temperature, top_p, top_k, max_tokens
    stop_sequences,     \* parse_options_json: the stop sequences collected
    regular_response,   \* parse_function_calls_from_response / construct_response_json
    function_calls,     \* parse_function_calls_from_response / construct_response_json
    error_message,      \* handle_error_response: the message
    buffer_size,        \* handle_error_response: the capacity the caller states
    response_buffer,    \* handle_error_response: the destination memory, or NullPtr
    json_response       \* construct_response_json: the text built

vars == <<fn, pc, json, pos, end_pos, src, messages, tools, options, stop_sequences,
          regular_response, function_calls, error_message, buffer_size,
          response_buffer, json_response>>

-----------------------------------------------------------------------------
(* Bounds of the model *)

MaxObjs == 2

MaxTools == 2

MaxStops == 2

MaxPieces == 3

MaxMsgLen == 3

MaxTextLen == 3

\* likewise for the stop sequences collected by a scan that does not advance
MaxSeqs == 4

\* the output vector of a scan that does not advance grows until memory runs out
MaxTurns == 4

-----------------------------------------------------------------------------
(* size_t and std::string primitives *)

\* size_t is modelled 16 bits wide: every text of the model is far shorter.
SizeMod == 65536

NPOS == SizeMod - 1

SizeT(x) == (x + SizeMod) % SizeMod

Min(a, b) == IF a < b THEN a ELSE b

\* s[i], 0-based
At(s, i) == s[i + 1]

MatchAt(s, pat, i) ==
    /\ i + Len(pat) <= Len(s)
    /\ \A k \in 1..Len(pat) : s[i + k] = pat[k]

RECURSIVE FindFrom(_, _, _)
FindFrom(s, pat, i) ==
    IF i + Len(pat) > Len(s) THEN NPOS
    ELSE IF MatchAt(s, pat, i) THEN i
    ELSE FindFrom(s, pat, i + 1)

\* std::string::find(pat, from)
Find(s, pat, from) == FindFrom(s, pat, from)

RECURSIVE RFindFrom(_, _, _)
RFindFrom(s, pat, i) ==
    IF i < 0 THEN NPOS
    ELSE IF MatchAt(s, pat, i) THEN i
    ELSE RFindFrom(s, pat, i - 1)

\* std::string::rfind(pat)
RFind(s, pat) == RFindFrom(s, pat, Len(s) - Len(pat))

\* std::string::substr(p, n), for p <= size (no caller of the model passes more)
Substr(s, p, n) == SubSeq(s, p + 1, Min(p + n, Len(s)))

RECURSIVE Flatten(_)
Flatten(ss) == IF ss = <<>> THEN <<>> ELSE Head(ss) \o Flatten(Tail(ss))

\* std::string::replace(p, 2, rep) applied at every match found from `from` on,
\* resuming one past the substituted character
RECURSIVE ReplaceEach(_, _, _, _)
ReplaceEach(s, pat, rep, from) ==
    LET p == Find(s, pat, from) IN
    IF p = NPOS THEN s
    ELSE ReplaceEach(SubSeq(s, 1, p) \o rep \o SubSeq(s, p + 3, Len(s)), pat, rep, p + 1)

-----------------------------------------------------------------------------
(* Characters and literals *)

Quote == <<"\"">>
Backslash == "\\"
Newline == "\n"
LBrace == <<"{">>
RBrace == <<"}">>
LBracket == <<"[">>
RBracket == <<"]">>
Colon == <<":">>
Comma == <<",">>

KeyRole == <<"\"", "r", "o", "l", "e", "\"">>
KeyContent == <<"\"", "c", "o", "n", "t", "e", "n", "t", "\"">>

Quoted(s) == Quote \o s \o Quote

-----------------------------------------------------------------------------
(* parse_messages_json *)

\* The inner while loop: the closing quote of the content value.  json[-1], read
\* when the quote found is the first character of the text, is out of bounds:
\* `ub` chooses whether the byte read there is a backslash.
RECURSIVE ContentEnd(_, _, _)
ContentEnd(s, ce, ub) ==
    IF ce < Len(s)
    THEN LET q == Find(s, Quote, ce) IN
         IF q = NPOS THEN NPOS
         ELSE IF q = 0 THEN (IF ub THEN ContentEnd(s, 1, ub) ELSE 0)
         ELSE IF At(s, q - 1) # Backslash THEN q
         ELSE ContentEnd(s, q + 1, ub)
    ELSE ce

ResolveEscapes(content) ==
    ReplaceEach(ReplaceEach(content, <<Backslash, "n">>, <<Newline>>, 0),
                <<Backslash, "\"">>, <<"\"">>, 0)

\* One loop iteration (lines 42-81); the call returns when no '{' is left.
MsgBegin ==
    /\ fn = "parse_messages_json" /\ pc = "start"
    /\ IF Find(json, LBracket, 0) = NPOS
       THEN pc' = "threw" /\ pos' = pos
       ELSE pc' = "scan" /\ pos' = Find(json, LBrace, Find(json, LBracket, 0))
    /\ UNCHANGED <<fn, json, end_pos, src, messages, tools, options, stop_sequences,
                   regular_response, function_calls, error_message, buffer_size,
                   response_buffer, json_response>>

MsgIter ==
    /\ fn = "parse_messages_json" /\ pc = "scan"
    /\ pos # NPOS
    /\ Len(messages) < MaxTurns
    /\ \E ub \in BOOLEAN :
         LET role_pos == Find(json, KeyRole, pos)
             role_start == SizeT(Find(json, Quote, SizeT(role_pos + 6)) + 1)
             role_end == Find(json, Quote, role_start)
             role == Substr(json, role_start, SizeT(role_end - role_start))
             content_pos == Find(json, KeyContent, role_end)
             content_start == SizeT(Find(json, Quote, SizeT(content_pos + 9)) + 1)
             content_end == ContentEnd(json, content_start, ub)
             content == Substr(json, content_start, SizeT(content_end - content_start))
         IN  IF role_pos = NPOS \/ content_pos = NPOS
             THEN pc' = "done" /\ UNCHANGED <<pos, messages>>
             ELSE /\ messages' = Append(messages, [role |-> role,
                                                   content |-> ResolveEscapes(content)])
                  /\ pos' = Find(json, LBrace, content_end)
                  /\ pc' = "scan"
    /\ UNCHANGED <<fn, json, end_pos, src, tools, options, stop_sequences,
                   regular_response, function_calls, error_message, buffer_size,
                   response_buffer, json_response>>

MsgReturn ==
    /\ fn = "parse_messages_json" /\ pc = "scan"
    /\ pos = NPOS
    /\ pc' = "done"
    /\ UNCHANGED <<fn, json, pos, end_pos, src, messages, tools, options, stop_sequences,
                   regular_response, function_calls, error_message, buffer_size,
                   response_buffer, json_response>>

(* The chat arrays the model decodes: up to MaxObjs objects, each with its keys in
   either order or with one key missing, the whole text or any prefix of it. *)

Roles == {<<"u">>, <<"s">>}

\* raw (still escaped) content values: plain, \n and \", an escaped backslash, a brace
Contents ==
    { <<"x">>,
      <<"a", "\\", "n", "\\", "\"">>,
      <<"b", "\\", "\\">>,
      <<"{", "z">> }

ChatObjects ==
    [order : {"rc", "cr"}, role : Roles, content : Contents]
        \cup [order : {"r"}, role : Roles]
        \cup [order : {"c"}, content : Contents]

RoleField(o) == KeyRole \o Colon \o Quoted(o.role)
ContentField(o) == KeyContent \o Colon \o Quoted(o.content)

RenderObject(o) ==
    LBrace \o
    (CASE o.order = "rc" -> RoleField(o) \o Comma \o ContentField(o)
       [] o.order = "cr" -> ContentField(o) \o Comma \o RoleField(o)
       [] o.order = "r" -> RoleField(o)
       [] o.order = "c" -> ContentField(o))
    \o RBrace

RECURSIVE JoinWith(_, _)
JoinWith(ss, sep) ==
    IF ss = <<>> THEN <<>>
    ELSE IF Len(ss) = 1 THEN Head(ss)
    ELSE Head(ss) \o sep \o JoinWith(Tail(ss), sep)

RenderChatArray(objs) ==
    LBracket \o JoinWith([i \in DOMAIN objs |-> RenderObject(objs[i])], Comma) \o RBracket

SeqsUpTo(S, n) == UNION {[1..k -> S] : k \in 0..n}

Prefixes(s) == {SubSeq(s, 1, n) : n \in 0..Len(s)}

DefaultOptions ==
    [temperature |-> <<"-", "1", ".", "0">>, top_p |-> <<"-", "1", ".", "0">>,
     top_k |-> 0, max_tokens |-> 100]

MsgInit ==
    /\ fn = "parse_messages_json" /\ pc = "start"
    /\ src \in SeqsUpTo(ChatObjects, MaxObjs)
    /\ json \in Prefixes(RenderChatArray(src))
    /\ pos = 0 /\ end_pos = 0
    /\ messages = <<>> /\ tools = <<>>
    /\ options = DefaultOptions /\ stop_sequences = <<>>
    /\ regular_response = <<>> /\ function_calls = <<>>
    /\ error_message = <<>> /\ buffer_size = 0 /\ response_buffer = <<>>
    /\ json_response = <<>>

MsgNext == MsgBegin \/ MsgIter \/ MsgReturn

SpecMsg == MsgInit /\ [][MsgNext]_vars

-----------------------------------------------------------------------------
(* parse_tools_json *)

KeyFunction == <<"\"", "f", "u", "n", "c", "t", "i", "o", "n", "\"">>
KeyName == <<"\"", "n", "a", "m", "e", "\"">>
KeyDescription ==
    <<"\"", "d", "e", "s", "c", "r", "i", "p", "t", "i", "o", "n", "\"">>
KeyParameters == <<"\"", "p", "a", "r", "a", "m", "e", "t", "e", "r", "s", "\"">>
KeyType == <<"\"", "t", "y", "p", "e", "\"">>

\* The brace-counting loop (lines 118-122): one past the brace that closes the
\* object, or the end of the text.
RECURSIVE ParamsEnd(_, _, _)
ParamsEnd(s, params_end, brace_count) ==
    IF params_end < Len(s) /\ brace_count > 0
    THEN ParamsEnd(s, params_end + 1,
                   IF At(s, params_end) = "{" THEN brace_count + 1
                   ELSE IF At(s, params_end) = "}" THEN brace_count - 1
                   ELSE brace_count)
    ELSE params_end

\* A quoted value after a key of length keylen found at key_pos (lines 99-103, 106-110)
QuotedValueAfter(s, key_pos, keylen) ==
    LET start == SizeT(Find(s, Quote, SizeT(key_pos + keylen)) + 1)
        end == Find(s, Quote, start)
    IN  Substr(s, start, SizeT(end - start))

\* std::unordered_map<std::string, std::string>: empty, or the one entry "schema"
NoParameters == <<>>

ToolBegin ==
    /\ fn = "parse_tools_json" /\ pc = "start"
    /\ IF json = <<>> \/ Find(json, LBracket, 0) = NPOS
       THEN pc' = "done" /\ pos' = pos
       ELSE pc' = "scan" /\ pos' = Find(json, KeyFunction, Find(json, LBracket, 0))
    /\ UNCHANGED <<fn, json, end_pos, src, messages, tools, options, stop_sequences,
                   regular_response, function_calls, error_message, buffer_size,
                   response_buffer, json_response>>

ToolIter ==
    /\ fn = "parse_tools_json" /\ pc = "scan"
    /\ pos # NPOS
    /\ LET name_pos == Find(json, KeyName, pos)
           desc_pos == Find(json, KeyDescription, pos)
           params_pos == Find(json, KeyParameters, pos)
           params_start == Find(json, LBrace, params_pos)
           params_end == ParamsEnd(json, params_start + 1, 1)
           tool == [name |-> IF name_pos # NPOS
                             THEN QuotedValueAfter(json, name_pos, 6) ELSE <<>>,
                    description |-> IF desc_pos # NPOS
                                    THEN QuotedValueAfter(json, desc_pos, 13) ELSE <<>>,
                    parameters |-> IF params_pos # NPOS /\ params_start # NPOS
                                   THEN [schema |-> Substr(json, params_start,
                                                           params_end - params_start)]
                                   ELSE NoParameters]
       IN  /\ tools' = Append(tools, tool)
           /\ pos' = Find(json, KeyFunction, name_pos)
    /\ UNCHANGED <<fn, pc, json, end_pos, src, messages, options, stop_sequences,
                   regular_response, function_calls, error_message, buffer_size,
                   response_buffer, json_response>>

ToolReturn ==
    /\ fn = "parse_tools_json" /\ pc = "scan"
    /\ pos = NPOS
    /\ pc' = "done"
    /\ UNCHANGED <<fn, json, pos, end_pos, src, messages, tools, options, stop_sequences,
                   regular_response, function_calls, error_message, buffer_size,
                   response_buffer, json_response>>

(* The tool arrays the model decodes: up to MaxTools wrapper objects, each with or
   without a name, a description and a (nested) parameters object, the whole text or
   any prefix of it. *)

\* a field the text does not carry (no text holds this element)
Absent == <<"absent">>

ToolNames == {Absent, <<"a">>, <<"b">>}
ToolDescriptions == {Absent, <<"d">>}
ToolSchemas == {Absent, <<"{", "\"", "p", "\"", ":", "{", "}", "}">>}

ToolObjects == [name : ToolNames, description : ToolDescriptions, schema : ToolSchemas]

ToolFields(t) ==
    (IF t.name = Absent THEN <<>> ELSE <<KeyName \o Colon \o Quoted(t.name)>>)
    \o (IF t.description = Absent THEN <<>>
        ELSE <<KeyDescription \o Colon \o Quoted(t.description)>>)
    \o (IF t.schema = Absent THEN <<>> ELSE <<KeyParameters \o Colon \o t.schema>>)

RenderTool(t) ==
    LBrace \o KeyType \o Colon \o KeyFunction \o Comma \o KeyFunction \o Colon
    \o LBrace \o JoinWith(ToolFields(t), Comma) \o RBrace \o RBrace

RenderToolArray(ts) ==
    LBracket \o JoinWith([i \in DOMAIN ts |-> RenderTool(ts[i])], Comma) \o RBracket

ToolInit ==
    /\ fn = "parse_tools_json" /\ pc = "start"
    /\ src \in SeqsUpTo(ToolObjects, MaxTools)
    /\ json \in Prefixes(RenderToolArray(src))
    /\ pos = 0 /\ end_pos = 0
    /\ messages = <<>> /\ tools = <<>>
    /\ options = DefaultOptions /\ stop_sequences = <<>>
    /\ regular_response = <<>> /\ function_calls = <<>>
    /\ error_message = <<>> /\ buffer_size = 0 /\ response_buffer = <<>>
    /\ json_response = <<>>

ToolNext == ToolBegin \/ ToolIter \/ ToolReturn

SpecTools == ToolInit /\ [][ToolNext]_vars

-----------------------------------------------------------------------------
(* parse_options_json *)

KeyTemperature ==
    <<"\"", "t", "e", "m", "p", "e", "r", "a", "t", "u", "r", "e", "\"">>
KeyTopP == <<"\"", "t", "o", "p", "_", "p", "\"">>
KeyTopK == <<"\"", "t", "o", "p", "_", "k", "\"">>
KeyMaxTokens == <<"\"", "m", "a", "x", "_", "t", "o", "k", "e", "n", "s", "\"">>
KeyStopSequences ==
    <<"\"", "s", "t", "o", "p", "_", "s", "e", "q", "u", "e", "n", "c", "e", "s", "\"">>

DigitChars == <<"0", "1", "2", "3", "4", "5", "6", "7", "8", "9">>

IsDigit(c) == \E i \in DOMAIN DigitChars : DigitChars[i] = c

DigitValue(c) == (CHOOSE i \in DOMAIN DigitChars : DigitChars[i] = c) - 1

RECURSIVE SkipSpaces(_)
SkipSpaces(s) == IF s # <<>> /\ Head(s) = " " THEN SkipSpaces(Tail(s)) ELSE s

RECURSIVE DigitPrefix(_)
DigitPrefix(s) ==
    IF s # <<>> /\ IsDigit(Head(s)) THEN <<Head(s)>> \o DigitPrefix(Tail(s)) ELSE <<>>

RECURSIVE DecimalValue(_, _)
DecimalValue(ds, acc) ==
    IF ds = <<>> THEN acc ELSE DecimalValue(Tail(ds), 10 * acc + DigitValue(Head(ds)))

Threw == [threw |-> TRUE]

\* std::stoul: leading spaces, an optional '+', decimal digits; invalid_argument
\* when no digit follows.  (No text of the model carries a '-' or overflows.)
Stoul(s) ==
    LET t == SkipSpaces(s)
        u == IF t # <<>> /\ Head(t) = "+" THEN Tail(t) ELSE t
        ds == DigitPrefix(u)
    IN  IF ds = <<>> THEN Threw ELSE [threw |-> FALSE, value |-> DecimalValue(ds, 0)]

\* std::stof: leading spaces, an optional sign, digits with an optional fraction;
\* invalid_argument when no digit is found.  The float is kept as the decimal
\* literal it was converted from.  (No text of the model carries an exponent.)
Stof(s) ==
    LET t == SkipSpaces(s)
        sign == IF t # <<>> /\ Head(t) \in {"+", "-"} THEN <<Head(t)>> ELSE <<>>
        u == SubSeq(t, Len(sign) + 1, Len(t))
        int == DigitPrefix(u)
        v == SubSeq(u, Len(int) + 1, Len(u))
        frac == IF v # <<>> /\ Head(v) = "." THEN DigitPrefix(Tail(v)) ELSE <<>>
    IN  IF int = <<>> /\ frac = <<>> THEN Threw
        ELSE [threw |-> FALSE,
              value |-> (IF sign = <<"-">> THEN sign ELSE <<>>) \o int
                        \o (IF v # <<>> /\ Head(v) = "." THEN <<".">> \o frac ELSE <<>>)]

\* The text a scalar option's number is parsed from (lines 149-150 and alike)
AfterColon(s, key) == Substr(s, SizeT(Find(s, Colon, Find(s, key, 0)) + 1), NPOS)

HasKey(s, key) == Find(s, key, 0) # NPOS

\* Lines 139-169: the defaults, then the four scalar options in order; a number
\* that does not parse throws with the options before it already assigned.
ScalarOptions(s) ==
    LET t == IF HasKey(s, KeyTemperature) THEN Stof(AfterColon(s, KeyTemperature))
             ELSE [threw |-> FALSE, value |-> DefaultOptions.temperature]
        p == IF HasKey(s, KeyTopP) THEN Stof(AfterColon(s, KeyTopP))
             ELSE [threw |-> FALSE, value |-> DefaultOptions.top_p]
        k == IF HasKey(s, KeyTopK) THEN Stoul(AfterColon(s, KeyTopK))
             ELSE [threw |-> FALSE, value |-> DefaultOptions.top_k]
        m == IF HasKey(s, KeyMaxTokens) THEN Stoul(AfterColon(s, KeyMaxTokens))
             ELSE [threw |-> FALSE, value |-> DefaultOptions.max_tokens]
        o1 == IF t.threw THEN DefaultOptions
              ELSE [DefaultOptions EXCEPT !.temperature = t.value]
        o2 == IF t.threw \/ p.threw THEN o1 ELSE [o1 EXCEPT !.top_p = p.value]
        o3 == IF t.threw \/ p.threw \/ k.threw THEN o2 ELSE [o2 EXCEPT !.top_k = k.value]
        o4 == IF t.threw \/ p.threw \/ k.threw \/ m.threw THEN o3
              ELSE [o3 EXCEPT !.max_tokens = m.value]
    IN  [threw |-> t.threw \/ p.threw \/ k.threw \/ m.threw, options |-> o4]

OptBegin ==
    /\ fn = "parse_options_json" /\ pc = "start"
    /\ stop_sequences' = <<>>
    /\ IF json = <<>>
       THEN pc' = "done" /\ options' = DefaultOptions /\ UNCHANGED <<pos, end_pos>>
       ELSE LET r == ScalarOptions(json)
                key_pos == Find(json, KeyStopSequences, 0)
                bracket_pos == Find(json, LBracket, key_pos)
            IN  /\ options' = r.options
                /\ IF r.threw
                   THEN pc' = "threw" /\ UNCHANGED <<pos, end_pos>>
                   ELSE IF key_pos = NPOS \/ bracket_pos = NPOS
                   THEN pc' = "done" /\ UNCHANGED <<pos, end_pos>>
                   ELSE /\ pc' = "scan"
                        /\ end_pos' = Find(json, RBracket, bracket_pos)
                        /\ pos' = Find(json, Quote, bracket_pos)
    /\ UNCHANGED <<fn, json, src, messages, tools, regular_response, function_calls,
                   error_message, buffer_size, response_buffer, json_response>>

\* The loop condition of line 178
OptMore == pos # NPOS /\ pos < end_pos

\* seq_pos after one iteration (line 184): seq_end + 1 wraps to 0 when the quote
\* is not closed
NextSeqPos(s, seq_end) == Find(s, Quote, SizeT(seq_end + 1))

OptIter ==
    /\ fn = "parse_options_json" /\ pc = "scan"
    /\ OptMore
    /\ Len(stop_sequences) < MaxSeqs
    /\ LET seq_start == pos + 1
           seq_end == Find(json, Quote, seq_start)
       IN  /\ stop_sequences' =
                 IF seq_end # NPOS
                 THEN Append(stop_sequences, Substr(json, seq_start, seq_end - seq_start))
                 ELSE stop_sequences
           /\ pos' = NextSeqPos(json, seq_end)
    /\ UNCHANGED <<fn, pc, json, end_pos, src, messages, tools, options,
                   regular_response, function_calls, error_message, buffer_size,
                   response_buffer, json_response>>

OptReturn ==
    /\ fn = "parse_options_json" /\ pc = "scan"
    /\ ~OptMore
    /\ pc' = "done"
    /\ UNCHANGED <<fn, json, pos, end_pos, src, messages, tools, options, stop_sequences,
                   regular_response, function_calls, error_message, buffer_size,
                   response_buffer, json_response>>

(* The options texts the model decodes: at most one scalar option (well-formed or
   not), then stop_sequences with up to MaxStops strings (or no such key), then an
   optional further member; the whole text or any prefix of it. *)

ScalarParts ==
    { <<>>,
      KeyTemperature \o Colon \o <<"0", ".", "7">> \o Comma,
      KeyTopP \o Colon \o <<" ", "1">> \o Comma,
      KeyTopK \o Colon \o <<"4", "0">> \o Comma,
      KeyTopK \o Colon \o Quoted(<<"o", "o", "p", "s">>) \o Comma,
      KeyMaxTokens \o Colon \o <<"7">> \o Comma }

StopWords == {<<"E", "N", "D">>, <<"S">>}

OptionTails == {<<>>, Comma \o Quoted(<<"x">>) \o Colon \o Quoted(<<"y">>)}

OptionTexts ==
    [scalar : ScalarParts, has_stops : {TRUE}, stops : SeqsUpTo(StopWords, MaxStops),
     tail : OptionTails]
        \cup [scalar : ScalarParts, has_stops : {FALSE}, stops : {<<>>},
              tail : OptionTails]

RenderOptions(o) ==
    LBrace \o o.scalar
    \o (IF ~o.has_stops THEN Quoted(<<"n">>) \o Colon \o <<"1">>
        ELSE KeyStopSequences \o Colon \o LBracket
             \o JoinWith([i \in DOMAIN o.stops |-> Quoted(o.stops[i])], Comma)
             \o RBracket)
    \o o.tail \o RBrace

OptInit ==
    /\ fn = "parse_options_json" /\ pc = "start"
    /\ src \in OptionTexts
    /\ json \in Prefixes(RenderOptions(src))
    /\ pos = 0 /\ end_pos = 0
    /\ messages = <<>> /\ tools = <<>>
    /\ options \in {DefaultOptions, [DefaultOptions EXCEPT !.top_k = 1]}
    /\ stop_sequences \in {<<>>, <<<<"o", "l", "d">>>>}
    /\ regular_response = <<>> /\ function_calls = <<>>
    /\ error_message = <<>> /\ buffer_size = 0 /\ response_buffer = <<>>
    /\ json_response = <<>>

OptNext == OptBegin \/ OptIter \/ OptReturn

SpecOpts == OptInit /\ [][OptNext]_vars

-----------------------------------------------------------------------------
(* parse_function_calls_from_response; `json` holds its response_text *)

FUNCTION_CALL_MARKER ==
    <<"\"", "f", "u", "n", "c", "t", "i", "o", "n", "_", "c", "a", "l", "l", "\"">>

\* The brace-counting loop (lines 225-231), from depth brace_count at json_end
RECURSIVE BraceScan(_, _, _)
BraceScan(s, json_end, brace_count) ==
    IF json_end < Len(s) /\ brace_count > 0
    THEN BraceScan(s, json_end + 1,
                   brace_count + (IF At(s, json_end) = "{" THEN 1 ELSE 0)
                               - (IF At(s, json_end) = "}" THEN 1 ELSE 0))
    ELSE [json_end |-> json_end, brace_count |-> brace_count]

\* Lines 235-239: the text before the marker, cut at its last '{' if it has one
VisibleText(s, marker_pos) ==
    LET before == Substr(s, 0, marker_pos)
        last_bracket == RFind(before, LBrace)
    IN  IF last_bracket # NPOS THEN Substr(before, 0, last_bracket) ELSE before

CallBegin ==
    /\ fn = "parse_function_calls_from_response" /\ pc = "start"
    /\ regular_response' = json
    /\ function_calls' = <<>>
    /\ pos' = 0
    /\ pc' = "scan"
    /\ UNCHANGED <<fn, json, end_pos, src, messages, tools, options, stop_sequences,
                   error_message, buffer_size, response_buffer, json_response>>

CallIter ==
    /\ fn = "parse_function_calls_from_response" /\ pc = "scan"
    /\ pos < Len(json)
    /\ LET marker_pos == Find(json, FUNCTION_CALL_MARKER, pos)
           json_start == Find(json, LBrace, marker_pos)
           scan == BraceScan(json, json_start + 1, 1)
       IN  IF marker_pos = NPOS \/ json_start = NPOS
           THEN pc' = "done" /\ UNCHANGED <<pos, regular_response, function_calls>>
           ELSE /\ pc' = "scan"
                /\ pos' = scan.json_end
                /\ IF scan.brace_count = 0
                   THEN /\ function_calls' =
                              Append(function_calls,
                                     Substr(json, json_start, scan.json_end - json_start))
                        /\ regular_response' = VisibleText(json, marker_pos)
                   ELSE UNCHANGED <<regular_response, function_calls>>
    /\ UNCHANGED <<fn, json, end_pos, src, messages, tools, options, stop_sequences,
                   error_message, buffer_size, response_buffer, json_response>>

CallReturn ==
    /\ fn = "parse_function_calls_from_response" /\ pc = "scan"
    /\ pos >= Len(json)
    /\ pc' = "done"
    /\ UNCHANGED <<fn, json, pos, end_pos, src, messages, tools, options, stop_sequences,
                   regular_response, function_calls, error_message, buffer_size,
                   response_buffer, json_response>>

(* The raw outputs the model splits: up to MaxPieces pieces, each prose (with or
   without braces) or a marker object wrapping a function call; the whole text or
   any prefix of it. *)

CallA == <<"{", "\"", "a", "\"", ":", "{", "}", "}">>
CallB == <<"{", "\"", "b", "\"", ":", "1", "}">>

Wrapped(call) == LBrace \o FUNCTION_CALL_MARKER \o Colon \o <<" ">> \o call \o RBrace

Pieces == { <<"H", "i", " ">>, <<"{", "x", "}", " ">>, Wrapped(CallA), Wrapped(CallB) }

CallInit ==
    /\ fn = "parse_function_calls_from_response" /\ pc = "start"
    /\ src \in SeqsUpTo(Pieces, MaxPieces)
    /\ json \in Prefixes(Flatten(src))
    /\ pos = 0 /\ end_pos = 0
    /\ messages = <<>> /\ tools = <<>>
    /\ options = DefaultOptions /\ stop_sequences = <<>>
    /\ regular_response = <<>> /\ function_calls \in {<<>>, <<CallB>>}
    /\ error_message = <<>> /\ buffer_size = 0 /\ response_buffer = <<>>
    /\ json_response = <<>>

CallNext == CallBegin \/ CallIter \/ CallReturn

SpecCalls == CallInit /\ [][CallNext]_vars

-----------------------------------------------------------------------------
(* handle_error_response *)

ErrorPrefix ==
    <<"{", "\"", "s", "u", "c", "c", "e", "s", "s", "\"", ":", "f", "a", "l", "s", "e",
      ",", "\"", "e", "r", "r", "o", "r", "\"", ":", "\"">>

ErrorSuffix == <<"\"", "}">>

\* Lines 24-25, applied to one character
Sanitize(c) ==
    LET c1 == IF c = "\"" THEN "'" ELSE c
    IN  IF c1 = "\n" THEN " " ELSE c1

\* Lines 22-27
ErrorJson(msg) == ErrorPrefix \o [i \in DOMAIN msg |-> Sanitize(msg[i])] \o ErrorSuffix

\* (a variant of Fits that forgets the terminator)
FitsWithoutTerminator(length, size) == length <= size

\* The length test of line 28
Fits(length, size) == length < size

NUL == "NUL"
NullPtr == <<"nullptr">>

\* std::strcpy: the characters of text and a terminating NUL, written from the
\* start of dest
Strcpy(dest, text) ==
    [i \in DOMAIN dest |->
        IF i <= Len(text) THEN text[i]
        ELSE IF i = Len(text) + 1 THEN NUL
        ELSE dest[i]]

HandleErrorResponse ==
    /\ fn = "handle_error_response" /\ pc = "start"
    /\ response_buffer' =
          IF response_buffer # NullPtr /\ Fits(Len(ErrorJson(error_message)), buffer_size)
          THEN Strcpy(response_buffer, ErrorJson(error_message))
          ELSE response_buffer
    /\ pc' = "done"
    /\ UNCHANGED <<fn, json, pos, end_pos, src, messages, tools, options, stop_sequences,
                   regular_response, function_calls, error_message, buffer_size,
                   json_response>>

(* The calls the model makes: every message of up to MaxMsgLen characters, every
   capacity from 0 to a little more than the longest document needs, a null
   destination or one of buffer_size bytes (followed in memory by one byte that is
   not the buffer's). *)

ErrChars == {"a", "\"", "\n", "\\", "\t"}

LongestErrorJson == Len(ErrorPrefix) + MaxMsgLen + Len(ErrorSuffix)

Memory(size) == [i \in 1..(size + 1) |-> "?"]

ErrInit ==
    /\ fn = "handle_error_response" /\ pc = "start"
    /\ error_message \in SeqsUpTo(ErrChars, MaxMsgLen)
    /\ buffer_size \in 0..(LongestErrorJson + 2)
    /\ response_buffer \in {NullPtr, Memory(buffer_size)}
    /\ src = response_buffer
    /\ json = <<>> /\ pos = 0 /\ end_pos = 0
    /\ messages = <<>> /\ tools = <<>>
    /\ options = DefaultOptions /\ stop_sequences = <<>>
    /\ regular_response = <<>> /\ function_calls = <<>>
    /\ json_response = <<>>

ErrNext == HandleErrorResponse

SpecErr == ErrInit /\ [][ErrNext]_vars

-----------------------------------------------------------------------------
(* construct_response_json *)

ResponseOpen ==
    <<"{", "\"", "s", "u", "c", "c", "e", "s", "s", "\"", ":", "t", "r", "u", "e", ",",
      "\"", "r", "e", "s", "p", "o", "n", "s", "e", "\"", ":", "\"">>

FunctionCallsOpen ==
    <<"\"", "f", "u", "n", "c", "t", "i", "o", "n", "_", "c", "a", "l", "l", "s", "\"",
      ":", "[">>

FieldTimeToFirstToken ==
    <<"\"", "t", "i", "m", "e", "_", "t", "o", "_", "f", "i", "r", "s", "t", "_", "t",
      "o", "k", "e", "n", "_", "m", "s", "\"", ":">>

FieldTotalTime ==
    <<"\"", "t", "o", "t", "a", "l", "_", "t", "i", "m", "e", "_", "m", "s", "\"", ":">>

FieldTokensPerSecond ==
    <<"\"", "t", "o", "k", "e", "n", "s", "_", "p", "e", "r", "_", "s", "e", "c", "o",
      "n", "d", "\"", ":">>

FieldPrefillTokens ==
    <<"\"", "p", "r", "e", "f", "i", "l", "l", "_", "t", "o", "k", "e", "n", "s", "\"",
      ":">>

FieldDecodeTokens ==
    <<"\"", "d", "e", "c", "o", "d", "e", "_", "t", "o", "k", "e", "n", "s", "\"", ":">>

FieldTotalTokens ==
    <<"\"", "t", "o", "t", "a", "l", "_", "t", "o", "k", "e", "n", "s", "\"", ":">>

\* (a variant of EscapeChar without the backslash case)
EscapeCharNoBackslash(c) ==
    IF c = "\"" THEN <<"\\", "\"">>
    ELSE IF c = "\n" THEN <<"\\", "n">>
    ELSE IF c = "\r" THEN <<"\\", "r">>
    ELSE IF c = "\t" THEN <<"\\", "t">>
    ELSE <<c>>

\* Lines 257-262: what one character of the response text is emitted as
EscapeChar(c) ==
    IF c = "\"" THEN <<"\\", "\"">>
    ELSE IF c = "\n" THEN <<"\\", "n">>
    ELSE IF c = "\r" THEN <<"\\", "r">>
    ELSE IF c = "\t" THEN <<"\\", "t">>
    ELSE IF c = "\\" THEN <<"\\", "\\">>
    ELSE <<c>>

EscapeText(text) == Flatten([i \in DOMAIN text |-> EscapeChar(text[i])])

\* operator<< of an unsigned integer
RECURSIVE Decimal(_)
Decimal(n) ==
    IF n < 10 THEN <<DigitChars[n + 1]>>
    ELSE Decimal(n \div 10) \o <<DigitChars[(n % 10) + 1]>>

\* std::fixed << std::setprecision(2) of a double.  A metric of the model is a
\* count of thousandths whose last digit is not 5, so rounding to the nearest
\* hundredth never meets a tie.
Fixed2(thousandths) ==
    LET h == (thousandths + 5) \div 10
    IN  Decimal(h \div 100) \o <<".">>
        \o <<DigitChars[((h \div 10) % 10) + 1], DigitChars[(h % 10) + 1]>>

ConstructResponseJson(response, calls, ttft, total_time_ms, tps, prompt_tokens, completion_tokens) ==
    ResponseOpen \o EscapeText(response) \o <<"\"", ",">>
    \o (IF calls # <<>>
        THEN FunctionCallsOpen \o JoinWith(calls, Comma) \o <<"]", ",">>
        ELSE <<>>)
    \o FieldTimeToFirstToken \o Fixed2(ttft) \o Comma
    \o FieldTotalTime \o Fixed2(total_time_ms) \o Comma
    \o FieldTokensPerSecond \o Fixed2(tps) \o Comma
    \o FieldPrefillTokens \o Decimal(prompt_tokens) \o Comma
    \o FieldDecodeTokens \o Decimal(completion_tokens) \o Comma
    \o FieldTotalTokens \o Decimal(prompt_tokens + completion_tokens)
    \o RBrace

ConstructResponse ==
    /\ fn = "construct_response_json" /\ pc = "start"
    /\ json_response' =
          ConstructResponseJson(regular_response, function_calls,
                                src.time_to_first_token, src.total_time_ms,
                                src.tokens_per_second, src.prompt_tokens,
                                src.completion_tokens)
    /\ pc' = "done"
    /\ UNCHANGED <<fn, json, pos, end_pos, src, messages, tools, options, stop_sequences,
                   regular_response, function_calls, error_message, buffer_size,
                   response_buffer>>

(* The calls the model makes: every response text of up to MaxTextLen characters
   (quotes, backslashes, newlines, carriage returns and tabs among them), none to
   two function calls, and a few metrics; `src` holds the metrics. *)

TextChars == {"a", "n", "\"", "\\", "\n", "\r", "\t"}

Metrics ==
    [time_to_first_token : {0, 12346}, total_time_ms : {100000},
     tokens_per_second : {9999}, prompt_tokens : {5}, completion_tokens : {0, 7}]

RespInit ==
    /\ fn = "construct_response_json" /\ pc = "start"
    /\ regular_response \in SeqsUpTo(TextChars, MaxTextLen)
    /\ function_calls \in {<<>>, <<CallA>>, <<CallA, CallB>>}
    /\ src \in Metrics
    /\ json = <<>> /\ pos = 0 /\ end_pos = 0
    /\ messages = <<>> /\ tools = <<>>
    /\ options = DefaultOptions /\ stop_sequences = <<>>
    /\ error_message = <<>> /\ buffer_size = 0 /\ response_buffer = <<>>
    /\ json_response = <<>>

RespNext == ConstructResponse

SpecResp == RespInit /\ [][RespNext]_vars

-----------------------------------------------------------------------------
(* The four scanners together *)

ScanInit == MsgInit \/ ToolInit \/ OptInit \/ CallInit

ScanNext == MsgNext \/ ToolNext \/ OptNext \/ CallNext

SpecScan == ScanInit /\ [][ScanNext]_vars

-----------------------------------------------------------------------------
(* Reference notions the properties are stated with *)

Range(s) == {s[i] : i \in DOMAIN s}

Occurs(s, pat) == Find(s, pat, 0) # NPOS

\* '{' minus '}' among the first n characters of t
RECURSIVE Depth(_, _)
Depth(t, n) ==
    IF n = 0 THEN 0
    ELSE Depth(t, n - 1) + (IF t[n] = "{" THEN 1 ELSE IF t[n] = "}" THEN -1 ELSE 0)

\* brace-delimited, with depth zero exactly at the last character
Balanced(t) ==
    /\ Len(t) >= 2
    /\ t[1] = "{" /\ t[Len(t)] = "}"
    /\ Depth(t, Len(t)) = 0
    /\ \A n \in 1..(Len(t) - 1) : Depth(t, n) > 0

ControlChars == {"\n", "\r", "\t"}

EscapeLetters == {"\"", "\\", "/", "b", "f", "n", "r", "t"}

Invalid == 0 - 1

\* JSON string syntax: the position (0-based) of the quote closing the string whose
\* first character is at i, or Invalid when the string holds a raw control
\* character or a backslash that starts no escape, or is never closed
RECURSIVE JsonStringClose(_, _)
JsonStringClose(t, i) ==
    IF i >= Len(t) THEN Invalid
    ELSE IF At(t, i) = "\"" THEN i
    ELSE IF At(t, i) \in ControlChars THEN Invalid
    ELSE IF At(t, i) = "\\"
         THEN IF i + 1 < Len(t) /\ At(t, i + 1) \in EscapeLetters
              THEN JsonStringClose(t, i + 2)
              ELSE Invalid
    ELSE JsonStringClose(t, i + 1)

\* JSON-unescaping of a syntactically valid string body
RECURSIVE JsonUnescape(_)
JsonUnescape(t) ==
    IF t = <<>> THEN <<>>
    ELSE IF Head(t) = "\\" /\ Len(t) >= 2
         THEN << CASE t[2] = "n" -> "\n"
                   [] t[2] = "r" -> "\r"
                   [] t[2] = "t" -> "\t"
                   [] OTHER -> t[2] >> \o JsonUnescape(SubSeq(t, 3, Len(t)))
    ELSE <<Head(t)>> \o JsonUnescape(Tail(t))

\* the C string a buffer holds
CString(buf) == SubSeq(buf, 1, Find(buf, <<NUL>>, 0))

-----------------------------------------------------------------------------
(* Properties *)

\* C1: every scan is bounded by the input length: each iteration of a scanner's
\* loop moves its cursor strictly forward (npos, the exit, being the largest).
C1_ScanAdvances == [][(pc = "scan" /\ pc' = "scan") => pos' > pos]_vars

\* C2: handle_error_response either leaves the destination exactly as it was, or
\* writes the complete error document and its terminator within buffer_size bytes
\* and nothing else.
C2_CompleteOrUntouched ==
    (fn = "handle_error_response" /\ pc = "done" /\ response_buffer # src) =>
        LET doc == CString(response_buffer) IN
        /\ src # NullPtr
        /\ Occurs(response_buffer, <<NUL>>)
        /\ Len(doc) + 1 <= buffer_size
        /\ Len(doc) = Len(ErrorPrefix) + Len(error_message) + Len(ErrorSuffix)
        /\ SubSeq(doc, 1, Len(ErrorPrefix)) = ErrorPrefix
        /\ SubSeq(doc, Len(doc) - 1, Len(doc)) = ErrorSuffix
        /\ \A i \in (Len(doc) + 2)..Len(src) : response_buffer[i] = src[i]

\* C2's case: a destination the document fits but its terminator does not
C2_Witness ==
    /\ fn = "handle_error_response" /\ pc = "done"
    /\ src # NullPtr
    /\ error_message # <<>>
    /\ buffer_size = Len(ErrorPrefix) + Len(error_message) + Len(ErrorSuffix)
    /\ response_buffer = src

WellFormedChat(objs) == \A i \in DOMAIN objs : objs[i].order \in {"rc", "cr"}

ExpectedTurn(o) == [role |-> o.role, content |-> ResolveEscapes(o.content)]

\* C3: a chat array of N well-formed role/content objects, whatever the order of
\* the keys and whatever the content, decodes to its N turns in order.
C3_DecodesEveryTurn ==
    (fn = "parse_messages_json" /\ pc = "done"
        /\ json = RenderChatArray(src) /\ WellFormedChat(src)) =>
        messages = [i \in DOMAIN src |-> ExpectedTurn(src[i])]

\* C4: once function calls were extracted, neither an extracted fragment nor a
\* "function_call" marker is left in the response text.
C4_CallsRemoved ==
    (fn = "parse_function_calls_from_response" /\ pc = "done"
        /\ json = Flatten(src) /\ function_calls # <<>>) =>
        /\ \A i \in DOMAIN function_calls : ~Occurs(regular_response, function_calls[i])
        /\ ~Occurs(regular_response, FUNCTION_CALL_MARKER)

FirstDefective(objs) ==
    CHOOSE k \in DOMAIN objs :
        /\ objs[k].order \in {"r", "c"}
        /\ \A j \in 1..(k - 1) : objs[j].order \in {"rc", "cr"}

\* role first, and no backslash before the closing quote of the content
PlainObject(o) == o.order = "rc" /\ o.content # <<"b", "\\", "\\">>

\* C5: when an object lacks a key, the result is the turns of the objects before it,
\* and every turn has the role and the content of one and the same object.  (Stated
\* for arrays whose objects before the defective one are plain.)
C5_PartialDecode ==
    (fn = "parse_messages_json" /\ pc = "done"
        /\ json = RenderChatArray(src) /\ ~WellFormedChat(src)
        /\ \A j \in 1..(FirstDefective(src) - 1) : PlainObject(src[j])) =>
        /\ messages = [i \in 1..(FirstDefective(src) - 1) |-> ExpectedTurn(src[i])]
        /\ \A i \in DOMAIN messages :
              \E j \in DOMAIN src :
                  src[j].order \in {"rc", "cr"} /\ messages[i] = ExpectedTurn(src[j])

\* C6: a schema entry of a descriptor is a brace-balanced substring of the input.
C6_SchemaBalanced ==
    fn = "parse_tools_json" =>
        \A i \in DOMAIN tools :
            "schema" \in DOMAIN tools[i].parameters =>
                /\ Occurs(json, tools[i].parameters.schema)
                /\ Balanced(tools[i].parameters.schema)

OrEmpty(field) == IF field = Absent THEN <<>> ELSE field

\* C7: one descriptor per tool, with its own name and description, a missing one
\* being the empty string.
C7_OneDescriptorPerTool ==
    (fn = "parse_tools_json" /\ pc = "done" /\ json = RenderToolArray(src)) =>
        /\ Len(tools) = Len(src)
        /\ \A i \in DOMAIN tools :
              /\ tools[i].name = OrEmpty(src[i].name)
              /\ tools[i].description = OrEmpty(src[i].description)

\* the strings of seqs are quoted in s, in this order, from `from` on and before
\* `limit`
RECURSIVE LocatedInOrder(_, _, _, _)
LocatedInOrder(s, seqs, from, limit) ==
    IF seqs = <<>> THEN TRUE
    ELSE \E p \in from..(Len(s) - 1) :
            /\ MatchAt(s, Quoted(Head(seqs)), p)
            /\ p + Len(Head(seqs)) + 1 < limit
            /\ LocatedInOrder(s, Tail(seqs), p + Len(Head(seqs)) + 2, limit)

\* C8: the stop sequences collected are quoted strings lying between the '[' after
\* the stop_sequences key and the first ']' after it, in input order.
C8_StopsInsideBrackets ==
    (fn = "parse_options_json" /\ pc \in {"scan", "done"}) =>
        LET open == Find(json, LBracket, Find(json, KeyStopSequences, 0))
        IN  IF open = NPOS THEN stop_sequences = <<>>
            ELSE LocatedInOrder(json, stop_sequences, open + 1,
                                Find(json, RBracket, open))

\* C9: the text handle_error_response writes is a valid JSON object
\* {"success":false,"error":"<string>"}.
C9_ErrorJsonValid ==
    (fn = "handle_error_response" /\ pc = "done" /\ response_buffer # src) =>
        LET doc == CString(response_buffer)
            close == JsonStringClose(doc, Len(ErrorPrefix))
        IN  /\ MatchAt(doc, ErrorPrefix, 0)
            /\ close # Invalid
            /\ SubSeq(doc, close + 1, Len(doc)) = ErrorSuffix

\* C10: the "response" string construct_response_json emits is a valid JSON string
\* (no raw quote, control character or lone backslash) that unescapes to the
\* response text it was given.
C10_ResponseRoundTrip ==
    (fn = "construct_response_json" /\ pc = "done") =>
        LET close == JsonStringClose(json_response, Len(ResponseOpen))
        IN  /\ MatchAt(json_response, ResponseOpen, 0)
            /\ close # Invalid
            /\ JsonUnescape(SubSeq(json_response, Len(ResponseOpen) + 1, close))
                  = regular_response
            /\ At(json_response, close + 1) = ","

\* C10's case: a text with a backslash, a quote and a newline has been encoded
C10_Witness ==
    /\ fn = "construct_response_json" /\ pc = "done"
    /\ {"\\", "\"", "\n"} \subseteq Range(regular_response)

====
